---- MODULE Spec2Model ----
(***************************************************************************)
(* Zero-shot event classification notebooks (yubrshen/BARTDemo):           *)
(* read_dataset, the zero-shot evaluation subset and ZeroShotClassifier    *)
(* (__init__ / train / predict) modelled as a state machine.               *)
(*                                                                         *)
(* Python's None is the empty tuple and a present value v is <<v>>, so     *)
(* that TLC never compares values of different kinds.  A cosine            *)
(* similarity is an integer number of hundredths (0.3 is 30).              *)
(***************************************************************************)
EXTENDS Integers, Sequences, FiniteSets, Bags, TLC

VARIABLES
    model,      \* the notebook-level name `model`: None while unbound
    clf,        \* the ZeroShotClassifier object: None before a constructor ran
    trainedBy,  \* history: the encoder that produced clf's label_embeddings
    trainLog,   \* history: the label lists clf's train calls were given
    call,       \* the last call or cell that ran, its arguments and outcome
    file,       \* the lines of the tsv file read_dataset is given
    nb          \* the notebook names the dataset cells bind: None while unbound

vars == <<model, clf, trainedBy, trainLog, call, file, nb>>

None == <<>>
Some(v) == <<v>>
Val(o) == o[1]

(***************************************************************************)
(* Bounds and input sets                                                   *)
(***************************************************************************)
MaxLabels == 2          \* longest label / description list of a trained classifier
MaxInputs == 2          \* longest input list of a single predict call
MaxSessionLabels == 1   \* longest label / description list in a notebook session
MaxSessionInputs == 1   \* longest input list in a notebook session
MaxLineLen == 2         \* longest line taken from every string over Chars
MaxLines == 2           \* most data lines of the tsv file
MaxItems == 3           \* longest dataset of the zero-shot subset cells

Models == {"mpnet", "tsdae"}
Texts == {"t1", "t2"}
LabelNames == {"A", "OTHER"}   \* "OTHER" is also a class of the shared task
NullLabels == {"OTHER"}
Thresholds == {None, Some(70)}
Booleans == {TRUE, FALSE}

SeqsUpTo(S, n) == UNION {[1..k -> S] : k \in 0..n}

\* a Python list built by a comprehension: the sequence, elements evaluated
List(s) == s \o <<>>

(***************************************************************************)
(* The sentence encoder and the cosine similarity (library calls)          *)
(***************************************************************************)
\* model.encode of one sentence: each encoder has its own embedding space.
Embedding(m, t) ==
    IF m = "mpnet"
    THEN (IF t = "t1" THEN <<1, 0>> ELSE <<1, 1>>)
    ELSE (IF t = "t1" THEN <<0, 1>> ELSE <<-1, 0>>)

\* model.encode(sentences): one row per sentence, in order.
Encode(m, sentences) ==
    List([i \in 1..Len(sentences) |-> Embedding(m, sentences[i])])

\* embeddings a caller may hand to predict directly
InputVectors == {Embedding("mpnet", t) : t \in Texts}

Dot(a, b) == a[1] * b[1] + a[2] * b[2]

\* integer square roots of 0..10000, tabulated once
ISqrt == [n \in 0..10000 |-> CHOOSE r \in 0..100 : r * r <= n /\ n < (r + 1) * (r + 1)]

\* cosine of two vectors in hundredths, rounded towards zero
Cos(a, b) ==
    LET d == Dot(a, b)
        q == ISqrt[(10000 * d * d) \div (Dot(a, a) * Dot(b, b))]
    IN  IF d < 0 THEN 0 - q ELSE q

\* util.pytorch_cos_sim(A, B): S[i][j] is the cosine of row i of A and row j of B
pytorch_cos_sim(A, B) ==
    List([i \in 1..Len(A) |-> List([j \in 1..Len(B) |-> Cos(A[i], B[j])])])

(***************************************************************************)
(* ZeroShotClassifier.predict, one input row                               *)
(***************************************************************************)
\* zip(a, b): pairs up to the shorter of the two
Zip(a, b) ==
    LET n == IF Len(a) < Len(b) THEN Len(a) ELSE Len(b)
    IN  List([j \in 1..n |-> <<a[j], b[j]>>])

\* place x before the entries of equal score, as a reversed ascending sort does
InsertDescFirst(s, x) ==
    LET k == Cardinality({j \in 1..Len(s) : s[j][2] > x[2]})
    IN  SubSeq(s, 1, k) \o <<x>> \o SubSeq(s, k + 1, Len(s))

\* place x behind every entry whose score is >= x's: equal scores keep their order
InsertDesc(s, x) ==
    LET k == Cardinality({j \in 1..Len(s) : s[j][2] >= x[2]})
    IN  SubSeq(s, 1, k) \o <<x>> \o SubSeq(s, k + 1, Len(s))

\* place x behind every entry whose score is <= x's
InsertAsc(s, x) ==
    LET k == Cardinality({j \in 1..Len(s) : s[j][2] <= x[2]})
    IN  SubSeq(s, 1, k) \o <<x>> \o SubSeq(s, k + 1, Len(s))

RECURSIVE SortedAsc(_)
\* the sort without reverse=True: lowest score first
SortedAsc(pairs) ==
    IF pairs = <<>> THEN <<>>
    ELSE InsertAsc(SortedAsc(SubSeq(pairs, 1, Len(pairs) - 1)), pairs[Len(pairs)])

RECURSIVE SortedDesc(_)
\* sorted(pairs, key=lambda x: x[1], reverse=True): stable, highest score first
SortedDesc(pairs) ==
    IF pairs = <<>> THEN <<>>
    ELSE InsertDesc(SortedDesc(SubSeq(pairs, 1, Len(pairs) - 1)), pairs[Len(pairs)])

\* a test that also rejects a score equal to the threshold
AtOrBelowThreshold(threshold, score) ==
    threshold # None /\ score <= Val(threshold)

\* the threshold test of predict
BelowThreshold(threshold, score) ==
    threshold # None /\ score < Val(threshold)

\* scored[0] with a fallback entry for an empty list
TopOrDefault(scored) ==
    IF scored = <<>> THEN Some(<<"OTHER", 0>>) ELSE Some(scored[1])

\* scored[0]: None stands for the IndexError of an empty list
Top(scored) ==
    IF scored = <<>> THEN None ELSE Some(scored[1])

\* pred, score = scored[0]; the null label replaces pred under the threshold
PickLabel(self, top) ==
    IF BelowThreshold(self.threshold, top[2])
    THEN self.null_label
    ELSE top[1]

(***************************************************************************)
(* ZeroShotClassifier                                                      *)
(***************************************************************************)
\* __init__(self, model=None, threshold=None, null_label="OTHER")
NewClassifier(m, threshold, null_label) ==
    [model            |-> m,
     labels           |-> <<>>,
     label_embeddings |-> None,
     threshold        |-> threshold,
     null_label       |-> null_label]

\* a loop body that writes the replaced prediction back into scored[0]
RowScoredWithNull(self, S, i) ==
    LET scored == SortedDesc(Zip(self.labels, S[i]))
    IN  IF scored # <<>> /\ BelowThreshold(self.threshold, scored[1][2])
        THEN <<<<self.null_label, scored[1][2]>>>> \o Tail(scored)
        ELSE scored

\* the body of predict's loop over the rows of S, for row i
RowScored(self, S, i) == SortedDesc(Zip(self.labels, S[i]))

\* predicted_labels built back to front
PredictedLabelsReversed(self, predicted_scores) ==
    LET n == Len(predicted_scores)
    IN  List([i \in 1..n |-> PickLabel(self, Val(Top(predicted_scores[n + 1 - i])))])

\* predicted_labels: one append per row, in row order
PredictedLabels(self, predicted_scores) ==
    List([i \in 1..Len(predicted_scores) |->
              PickLabel(self, Val(Top(predicted_scores[i])))])

\* a return that takes the labels from the ranked lists when scores are asked for
ReturnedFromScores(predicted_labels, predicted_scores, output_scores) ==
    [predicted_labels |-> IF output_scores
                          THEN [i \in 1..Len(predicted_scores) |-> predicted_scores[i][1][1]]
                          ELSE predicted_labels,
     predicted_scores |-> IF output_scores THEN Some(predicted_scores) ELSE None]

\* what predict returns: the labels alone, or the labels and the ranked lists
Returned(predicted_labels, predicted_scores, output_scores) ==
    [predicted_labels |-> predicted_labels,
     predicted_scores |-> IF output_scores THEN Some(predicted_scores) ELSE None]

\* a test that encodes the texts whenever texts are given
UsesEncoderForTexts(input_texts, input_embeddings) ==
    input_embeddings = None \/ input_texts # None

\* if input_embeddings is None: the texts are encoded only then
UsesEncoder(input_texts, input_embeddings) ==
    input_embeddings = None

\* the encoder calls predict makes: one, on self.model, when no embeddings are given
PredictEncodes(self, input_texts, input_embeddings) ==
    IF UsesEncoder(input_texts, input_embeddings)
    THEN <<[model |-> self.model, sentences |-> input_texts]>>
    ELSE <<>>

Raised(error, encodes) == [outcome |-> error, encodes |-> encodes]

\* every way one predict call can end
PredictOutcomes(self, input_texts, input_embeddings, output_scores) ==
    LET encodes == PredictEncodes(self, input_texts, input_embeddings)
        encoded == UsesEncoder(input_texts, input_embeddings)
    IN
    IF encoded /\ self.model = None
    THEN {Raised("AttributeError", <<>>)}       \* None has no encode
    ELSE IF encoded /\ input_texts = None
    THEN {Raised("TypeError", encodes)}         \* encode(None)
    ELSE
    LET embs == IF encoded
                THEN Encode(Val(self.model), Val(input_texts))
                ELSE Val(input_embeddings)
    IN
    IF self.label_embeddings = None
    THEN {Raised("RuntimeError", encodes)}      \* pytorch_cos_sim(_, None)
    ELSE
    LET S == pytorch_cos_sim(embs, Val(self.label_embeddings))
        rows == 1..Len(embs)                    \* range(input_embeddings.shape[0])
        \* a matrix without rows: the library may reject the shapes
        shapeError == IF Len(embs) = 0 \/ Len(Val(self.label_embeddings)) = 0
                      THEN {Raised("RuntimeError", encodes)}
                      ELSE {}
    IN
    shapeError \cup
    LET predicted_scores == List([i \in rows |-> RowScored(self, S, i)])
    IN
    IF \E i \in rows : Top(predicted_scores[i]) = None
    THEN {Raised("IndexError", encodes)}        \* scored[0] of an empty list
    ELSE
    LET predicted_labels == PredictedLabels(self, predicted_scores)
    IN  {[outcome |-> "returned",
          encodes |-> encodes,
          result  |-> Returned(predicted_labels, predicted_scores, output_scores)]}

\* one encoder call per description
TrainEncodesEach(m, descriptions) ==
    [j \in 1..Len(descriptions) |-> [model |-> m, sentences |-> Some(<<descriptions[j]>>)]]

\* the encoder calls train makes: one, on the notebook-level `model`
TrainEncodes(m, descriptions) ==
    <<[model |-> m, sentences |-> Some(descriptions)]>>

\* the encoder train's body names: the global `model`, not self.model
TrainEncoder(self, global) == global

\* a train that keeps the labels of the first training
TrainLabelsKept(self, labels) ==
    IF self.labels = <<>> THEN labels ELSE self.labels

\* self.labels = labels: the list given replaces the stored one
TrainLabels(self, labels) == labels

\* the elements of a list
Range(list) == {list[k] : k \in 1..Len(list)}

\* the train calls of a classifier: the label list of the most recent one (None
\* before the first) and the labels that only the calls before it were given
NoTrain == [last |-> None, retired |-> {}]

\* the log after one more train call, given `labels`
Logged(log, labels) ==
    [last    |-> Some(labels),
     retired |-> (IF log.last = None THEN log.retired
                  ELSE log.retired \cup Range(Val(log.last))) \ Range(labels)]

(***************************************************************************)
(* Actions of the classifier notebook cells                                *)
(***************************************************************************)
\* model = SentenceTransformer(...): (re)binds the notebook-level name
BindModel(m) ==
    /\ model' = Some(m)
    /\ UNCHANGED <<clf, trainedBy, trainLog, call, file, nb>>

\* clf = ZeroShotClassifier(model=m, threshold=..., null_label=...)
Construct(m, threshold, null_label) ==
    /\ clf' = Some(NewClassifier(m, threshold, null_label))
    /\ trainedBy' = None
    /\ trainLog' = NoTrain
    /\ call' = [op |-> "init", outcome |-> "returned", encodes |-> <<>>]
    /\ UNCHANGED <<model, file, nb>>

\* clf.train(labels, descriptions)
train(labels, descriptions) ==
    /\ clf # None
    /\ LET self == Val(clf)
           enc  == TrainEncoder(self.model, model)
       IN  IF enc = None
           THEN \* self.labels is already assigned when `model` fails to resolve
                /\ clf' = Some([self EXCEPT !.labels = TrainLabels(self, labels)])
                /\ trainedBy' = trainedBy
                /\ call' = [op |-> "train", labels |-> labels,
                            descriptions |-> descriptions,
                            outcome |-> "NameError", encodes |-> <<>>]
           ELSE /\ clf' = Some([self EXCEPT
                            !.labels = TrainLabels(self, labels),
                            !.label_embeddings = Some(Encode(Val(enc), descriptions))])
                /\ trainedBy' = enc
                /\ call' = [op |-> "train", labels |-> labels,
                            descriptions |-> descriptions,
                            outcome |-> "returned",
                            encodes |-> TrainEncodes(Val(enc), descriptions)]
    /\ trainLog' = Logged(trainLog, labels)
    /\ UNCHANGED <<model, file, nb>>

\* clf.predict(input_texts, input_embeddings, output_scores)
predict(input_texts, input_embeddings, output_scores) ==
    /\ clf # None
    /\ \E o \in PredictOutcomes(Val(clf), input_texts, input_embeddings, output_scores) :
          call' = [op |-> "predict", input_texts |-> input_texts,
                   input_embeddings |-> input_embeddings,
                   output_scores |-> output_scores] @@ o
    /\ UNCHANGED <<model, clf, trainedBy, trainLog, file, nb>>

OptTexts(n) == {None} \cup {Some(x) : x \in SeqsUpTo(Texts, n)}

\* the arguments predict is called with: nothing, texts alone, or embeddings
\* of up to n rows with one of `beside` as the texts passed along with them
PredictArgs(n, beside) ==
    {<<t, None>> : t \in OptTexts(n)}
    \cup {<<t, Some(e)>> : t \in beside, e \in SeqsUpTo(InputVectors, n)}

OptModels == {None} \cup {Some(m) : m \in Models}

\* the notebook before any dataset cell ran
NoNames == [dataset |-> None, texts |-> None, y_true |-> None,
            texts_zs |-> None, y_true_zs |-> None]

NoCall == [op |-> "none", outcome |-> "returned", encodes |-> <<>>]

(***************************************************************************)
(* Spec: a notebook session, any sequence of binding `model`, constructing *)
(* a classifier, train and predict                                         *)
(***************************************************************************)
Init ==
    /\ model = None
    /\ clf = None
    /\ trainedBy = None
    /\ trainLog = NoTrain
    /\ call = NoCall
    /\ file = <<>>
    /\ nb = NoNames

Next ==
    \/ \E m \in Models : BindModel(m)
    \/ \E m \in OptModels, threshold \in Thresholds, null_label \in NullLabels :
          Construct(m, threshold, null_label)
    \/ \E labels \in SeqsUpTo(LabelNames, MaxSessionLabels),
          descriptions \in SeqsUpTo(Texts, MaxSessionLabels) :
          train(labels, descriptions)
    \/ \E a \in PredictArgs(MaxSessionInputs, {None}), output_scores \in Booleans :
          predict(a[1], a[2], output_scores)

Spec == Init /\ [][Next]_vars

(***************************************************************************)
(* SpecPredict: one predict call on every classifier a session can leave   *)
(***************************************************************************)
\* the classifier after __init__(m, ...) and, when trained, train(labels,
\* descriptions) with `model` bound to enc (None: `model` was unbound)
ClassifierAfter(m, threshold, null_label, trained, labels, descriptions, enc) ==
    LET new == NewClassifier(m, threshold, null_label)
    IN  IF ~trained THEN new
        ELSE IF enc = None THEN [new EXCEPT !.labels = TrainLabels(new, labels)]
        ELSE [new EXCEPT !.labels = TrainLabels(new, labels),
                         !.label_embeddings = Some(Encode(Val(enc), descriptions))]

InitPredict ==
    /\ \E m \in OptModels, threshold \in Thresholds, null_label \in NullLabels,
          trained \in Booleans, enc \in OptModels,
          labels \in SeqsUpTo(LabelNames, MaxLabels),
          descriptions \in SeqsUpTo(Texts, MaxLabels) :
          /\ clf = Some(ClassifierAfter(m, threshold, null_label, trained,
                                        labels, descriptions, enc))
          /\ model = enc
          /\ trainedBy = IF trained THEN enc ELSE None
          /\ trainLog = IF trained THEN Logged(NoTrain, labels) ELSE NoTrain
    /\ call = NoCall
    /\ file = <<>>
    /\ nb = NoNames

PredictOnce(input_texts, input_embeddings, output_scores) ==
    /\ call.op = "none"
    /\ predict(input_texts, input_embeddings, output_scores)

NextPredict ==
    \E a \in PredictArgs(MaxInputs, {None, Some(<<"t1">>)}), output_scores \in Booleans :
        PredictOnce(a[1], a[2], output_scores)

SpecPredict == InitPredict /\ [][NextPredict]_vars

(***************************************************************************)
(* read_dataset                                                            *)
(***************************************************************************)
\* a string is the sequence of its characters
TAB == "\t"
NL == "\n"
SP == " "
Whitespace == {SP, TAB, NL}
Chars == {"x", SP, TAB}

RECURSIVE lstrip(_)
lstrip(s) == IF s # <<>> /\ s[1] \in Whitespace THEN lstrip(Tail(s)) ELSE s

RECURSIVE rstrip(_)
rstrip(s) ==
    IF s # <<>> /\ s[Len(s)] \in Whitespace
    THEN rstrip(SubSeq(s, 1, Len(s) - 1))
    ELSE s

\* a strip that leaves the line as it is
StripNothing(s) == s

\* line.strip(): leading and trailing whitespace removed
strip(s) == rstrip(lstrip(s))

RECURSIVE split(_, _)
\* s.split(sep): the pieces between the separators, at least one piece
split(s, sep) ==
    IF \A k \in 1..Len(s) : s[k] # sep
    THEN <<s>>
    ELSE LET k == CHOOSE k \in 1..Len(s) :
                      s[k] = sep /\ \A j \in 1..(k - 1) : s[j] # sep
         IN  <<SubSeq(s, 1, k - 1)>> \o split(SubSeq(s, k + 1, Len(s)), sep)

\* list(f): the lines of the file, each with its line terminator
list_f(f) == List([i \in 1..Len(f) |-> f[i] \o <<NL>>])

\* the whole list, header included
KeepFirst(lines) == lines

\* list(f)[1:]
SkipFirst(lines) == SubSeq(lines, 2, Len(lines))

\* an unpacking that only needs three fields to be there
UnpackFailsShort(fields) == Len(fields) < 3

\* id, text, label = fields: ValueError unless there are exactly three
UnpackFails(fields) == Len(fields) # 3

Item(fields) == [id |-> fields[1], text |-> fields[2], label |-> fields[3]]

\* read_dataset(path) on a file with lines f
read_dataset(f) ==
    LET lines  == SkipFirst(list_f(f))
        fields == List([i \in 1..Len(lines) |-> split(strip(lines[i]), TAB)])
    IN  IF \E i \in 1..Len(lines) : UnpackFails(fields[i])
        THEN [outcome |-> "ValueError"]
        ELSE [outcome |-> "returned",
              result  |-> List([i \in 1..Len(lines) |-> Item(fields[i])])]

\* dataset = read_dataset(DIR / "test_set_final_release_with_labels.tsv")
ReadCell ==
    /\ LET r == read_dataset(file)
       IN  /\ call' = [op |-> "read_dataset"] @@ r
           /\ nb' = IF r.outcome = "returned"
                    THEN [nb EXCEPT !.dataset = Some(r.result)]
                    ELSE nb
    /\ UNCHANGED <<model, clf, trainedBy, trainLog, file>>

\* lines that show each shape of a data line
SampleLines ==
    {<<"x", TAB, "y", TAB, "z">>,
     <<"y", TAB, TAB, "x">>,
     <<SP, "x", TAB, "y", TAB, "z">>,
     <<"x", TAB, "y", TAB, "z", SP>>,
     <<"x", TAB, SP, "y", SP, TAB, "z">>,
     <<TAB, "x", TAB, "y", TAB, "z">>,
     <<"x", TAB, "y", TAB, "z", TAB>>,
     <<"x", TAB, "y">>,
     <<"x", TAB, "y", TAB>>,
     <<TAB, "x", TAB, "y">>,
     <<"x", TAB, "y", TAB, "z", TAB, "w">>}

Lines == SampleLines \cup SeqsUpTo(Chars, MaxLineLen)

Headers == {<<"i", "d", TAB, "t", TAB, "l">>, <<>>}

\* the empty file, or a header line followed by data lines
Files ==
    {<<>>} \cup {<<h>> \o d : h \in Headers, d \in SeqsUpTo(Lines, MaxLines)}

InitRead ==
    /\ model = None
    /\ clf = None
    /\ trainedBy = None
    /\ trainLog = NoTrain
    /\ call = NoCall
    /\ file \in Files
    /\ nb = NoNames

NextRead == ReadCell

SpecRead == InitRead /\ [][NextRead]_vars

(***************************************************************************)
(* The zero-shot evaluation subset                                         *)
(***************************************************************************)
zero_shot_labels ==
    <<"ORG_CRIME", "NATURAL_DISASTER", "MAN_MADE_DISASTER", "DIPLO", "ATTRIB">>

\* label in zero_shot_labels
InList(x, list) == \E k \in 1..Len(list) : list[k] = x

RECURSIVE Filter(_, _)
\* [(text, label) for text, label in pairs if label in keep], in order
Filter(pairs, keep) ==
    IF pairs = <<>> THEN <<>>
    ELSE LET rest == Filter(Tail(pairs), keep)
         IN  IF InList(pairs[1][2], keep) THEN <<pairs[1]>> \o rest ELSE rest

\* zip(*pairs): the column of texts and the column of labels; no columns
\* at all for an empty list
Unzip(pairs) ==
    IF pairs = <<>> THEN <<>>
    ELSE <<[i \in 1..Len(pairs) |-> pairs[i][1]],
           [i \in 1..Len(pairs) |-> pairs[i][2]]>>

\* texts = [x["text"] for x in dataset]; y_true = [x["label"] for x in dataset]
ExtractCell ==
    /\ IF nb.dataset = None
       THEN /\ call' = [op |-> "extract", outcome |-> "NameError"]
            /\ nb' = nb
       ELSE LET dataset == Val(nb.dataset)
            IN  /\ call' = [op |-> "extract", outcome |-> "returned"]
                /\ nb' = [nb EXCEPT
                      !.texts  = Some([i \in 1..Len(dataset) |-> dataset[i].text]),
                      !.y_true = Some([i \in 1..Len(dataset) |-> dataset[i].label])]
    /\ UNCHANGED <<model, clf, trainedBy, trainLog, file>>

\* texts_zs, y_true_zs = zip(*[(text, label) for text, label in
\*                             zip(texts, y_true) if label in zero_shot_labels])
ZeroShotCell ==
    /\ IF nb.texts = None \/ nb.y_true = None
       THEN /\ call' = [op |-> "zero_shot", outcome |-> "NameError"]
            /\ nb' = nb
       ELSE LET columns == Unzip(Filter(Zip(Val(nb.texts), Val(nb.y_true)),
                                        zero_shot_labels))
            IN  IF Len(columns) # 2
                THEN \* not enough values to unpack: the names stay as they were
                     /\ call' = [op |-> "zero_shot", outcome |-> "ValueError"]
                     /\ nb' = nb
                ELSE /\ call' = [op |-> "zero_shot", outcome |-> "returned"]
                     /\ nb' = [nb EXCEPT !.texts_zs  = Some(columns[1]),
                                         !.y_true_zs = Some(columns[2])]
    /\ UNCHANGED <<model, clf, trainedBy, trainLog, file>>

ItemLabels == {"DIPLO", "ORG_CRIME", "ARREST"}

Items == [id : {"e1", "e2"}, text : Texts, label : ItemLabels]

\* the notebook after read_dataset returned a dataset
InitZeroShot ==
    /\ model = None
    /\ clf = None
    /\ trainedBy = None
    /\ trainLog = NoTrain
    /\ call = NoCall
    /\ file = <<>>
    /\ \E dataset \in SeqsUpTo(Items, MaxItems) :
          nb = [NoNames EXCEPT !.dataset = Some(dataset)]

NextZeroShot ==
    \/ ExtractCell
    \/ ZeroShotCell

SpecZeroShot == InitZeroShot /\ [][NextZeroShot]_vars

(***************************************************************************)
(* The last predict call, as the claims read it                            *)
(***************************************************************************)
PredictReturned == call.op = "predict" /\ call.outcome = "returned"

Self == Val(clf)

\* the rows predict scored: the embeddings given, else the encoded texts
InputRows ==
    IF call.input_embeddings = None
    THEN Encode(Val(Self.model), Val(call.input_texts))
    ELSE Val(call.input_embeddings)

\* the positions of the label list that zip pairs with a score
ScoredLabels ==
    {j \in 1..Len(Self.labels) : j <= Len(Val(Self.label_embeddings))}

\* the cosine of every input row and every label embedding, as a table
Scores ==
    LET rows == InputRows
        embs == Val(Self.label_embeddings)
    IN  List([i \in 1..Len(rows) |->
                  List([j \in 1..Len(embs) |-> Cos(rows[i], embs[j])])])

\* in row S of the scores, position j holds label pred and no label scores higher
IsTop(S, J, pred, j) ==
    /\ Self.labels[j] = pred
    /\ \A k \in J : S[k] <= S[j]

(***************************************************************************)
(* C1: with threshold None, predict assigns to every input the label with  *)
(* the highest cosine similarity among the trained labels: no trained      *)
(* label scores strictly higher than the returned one, and the returned    *)
(* label is a trained label, not a substituted null_label.                 *)
(***************************************************************************)
C1_ArgmaxWithoutThreshold ==
    (PredictReturned /\ Self.threshold = None) =>
        LET S == Scores
            J == ScoredLabels
        IN  \A i \in 1..Len(S) :
                \E j \in J : IsTop(S[i], J, call.result.predicted_labels[i], j)

\* a two-label classifier without threshold whose second label wins
C1_Witness ==
    /\ PredictReturned /\ Self.threshold = None
    /\ Len(InputRows) >= 1
    /\ Cardinality(ScoredLabels) = 2
    /\ Scores[1][1] < Scores[1][2]
    /\ call.result.predicted_labels[1] = Self.labels[2]
    /\ Self.labels[1] # Self.labels[2]

(***************************************************************************)
(* C2: with a threshold, predict assigns null_label to an input exactly    *)
(* when every trained label scores strictly below the threshold, and the   *)
(* highest-scoring label otherwise; a top score equal to the threshold     *)
(* keeps the top label.                                                    *)
(***************************************************************************)
C2_NullLabelBelowThreshold ==
    (PredictReturned /\ Self.threshold # None) =>
        LET S == Scores
            J == ScoredLabels
            t == Val(Self.threshold)
        IN  \A i \in 1..Len(S) :
                IF \A k \in J : S[i][k] < t
                THEN call.result.predicted_labels[i] = Self.null_label
                ELSE \E j \in J :
                        /\ IsTop(S[i], J, call.result.predicted_labels[i], j)
                        /\ S[i][j] >= t

\* one call that shows both sides: input 1 tops out exactly at the threshold and
\* keeps its label, input 2 stays below it and gets the null label
C2_Witness ==
    /\ PredictReturned /\ Self.threshold # None
    /\ Len(InputRows) = 2
    /\ \E j \in ScoredLabels :
          /\ IsTop(Scores[1], ScoredLabels, call.result.predicted_labels[1], j)
          /\ Scores[1][j] = Val(Self.threshold)
          /\ Self.labels[j] # Self.null_label
    /\ \A k \in ScoredLabels : Scores[2][k] < Val(Self.threshold)
    /\ call.result.predicted_labels[2] = Self.null_label

(***************************************************************************)
(* C4: with output_scores=True predict returns the labels and, per input,  *)
(* the full ranked list: when there are as many label embeddings as        *)
(* labels, every trained label exactly once with its score for that input, *)
(* in non-increasing score order.  With output_scores=False only the       *)
(* labels are returned, and the labels are the same in both modes.         *)
(***************************************************************************)
\* how often pair x occurs in the list s
Count(s, x) == Cardinality({j \in 1..Len(s) : s[j] = x})

\* scored holds exactly the pairs of `pairs`, each as often
SamePairs(scored, pairs) ==
    /\ Len(scored) = Len(pairs)
    /\ \A j \in 1..Len(pairs) : Count(scored, pairs[j]) = Count(pairs, pairs[j])

NonIncreasing(scored) ==
    \A a \in 1..(Len(scored) - 1) : scored[a][2] >= scored[a + 1][2]

\* the labels predict returns for the same arguments in the other mode
LabelsInOtherMode ==
    {o.result.predicted_labels :
        o \in {x \in PredictOutcomes(Self, call.input_texts, call.input_embeddings,
                                     ~call.output_scores) : x.outcome = "returned"}}

C4_RankedListAndLabels ==
    PredictReturned =>
        /\ LabelsInOtherMode = {call.result.predicted_labels}
        /\ ~call.output_scores => call.result.predicted_scores = None
        /\ call.output_scores =>
              /\ call.result.predicted_scores # None
              /\ Len(Val(call.result.predicted_scores)) = Len(InputRows)
              /\ Len(Self.labels) = Len(Val(Self.label_embeddings)) =>
                    LET S == Scores
                    IN  \A i \in 1..Len(S) :
                            LET scored == Val(call.result.predicted_scores)[i]
                                pairs  == [j \in 1..Len(Self.labels) |->
                                              <<Self.labels[j], S[i][j]>>]
                            IN  SamePairs(scored, pairs) /\ NonIncreasing(scored)

\* scores asked for, two labels given in ascending score order, and a threshold
\* that replaces the top label by the null label
C4_Witness ==
    /\ PredictReturned /\ call.output_scores
    /\ Len(InputRows) >= 1
    /\ Len(Self.labels) = 2 /\ Len(Val(Self.label_embeddings)) = 2
    /\ Scores[1][1] < Scores[1][2]
    /\ Val(call.result.predicted_scores)[1][1][1] # call.result.predicted_labels[1]

(***************************************************************************)
(* C5: predict returns one label per input, in input order: as many        *)
(* labels as input rows, the i-th being the prediction for the i-th input  *)
(* on its own; no inputs give the empty list.                              *)
(***************************************************************************)
\* the labels predict returns for the single row `row`
AloneLabels(row) ==
    {o.result.predicted_labels :
        o \in {x \in PredictOutcomes(Self, None, Some(<<row>>), FALSE) :
                   x.outcome = "returned"}}

C5_OneLabelPerInputInOrder ==
    PredictReturned =>
        LET rows == InputRows
        IN  /\ Len(call.result.predicted_labels) = Len(rows)
            /\ \A i \in 1..Len(rows) :
                  AloneLabels(rows[i]) = {<<call.result.predicted_labels[i]>>}

\* two inputs with different predictions
C5_Witness ==
    /\ PredictReturned
    /\ Len(InputRows) = 2
    /\ call.result.predicted_labels[1] # call.result.predicted_labels[2]

(***************************************************************************)
(* C3: label descriptions and input texts are embedded by the same         *)
(* encoder: whenever predict encodes input texts, it uses the model that   *)
(* produced the label embeddings train stored (the constructor's model).   *)
(***************************************************************************)
C3_SameEncoder ==
    (PredictReturned /\ call.encodes # <<>> /\ Len(InputRows) >= 1
                     /\ Len(Val(Self.label_embeddings)) >= 1) =>
        /\ call.encodes[1].model = Self.model
        /\ trainedBy = Self.model

(***************************************************************************)
(* C6: label descriptions are encoded once: a train call that returns has  *)
(* made exactly one encoder call, on the whole description list (a train   *)
(* call that raises has made none), and a predict call encodes nothing but *)
(* its input texts and leaves labels, label_embeddings, threshold,         *)
(* null_label and model of the classifier unchanged.                       *)
(***************************************************************************)
C6_Step ==
    /\ (call'.op = "train" /\ call'.outcome = "returned") =>
          /\ Len(call'.encodes) = 1
          /\ call'.encodes[1].sentences = Some(call'.descriptions)
          /\ Val(clf').label_embeddings =
                Some(Encode(call'.encodes[1].model, call'.descriptions))
    /\ (call'.op = "train" /\ call'.outcome # "returned") => call'.encodes = <<>>
    /\ call'.op = "predict" =>
          /\ clf' = clf
          /\ trainedBy' = trainedBy
          /\ Len(call'.encodes) <= 1
          /\ \A k \in 1..Len(call'.encodes) :
                /\ call'.encodes[k].sentences = call'.input_texts
                /\ call'.input_embeddings = None

C6_EncodedOnce == [][C6_Step]_vars

\* a predict call that returned on a classifier trained with a description
C6_Witness ==
    /\ PredictReturned
    /\ call.encodes # <<>>
    /\ Len(Val(Self.label_embeddings)) >= 1
    /\ Len(InputRows) >= 1

(***************************************************************************)
(* C9: a predict call with at least one input on a classifier without      *)
(* labels (never trained, or trained with an empty label list) raises and  *)
(* returns no predictions.                                                 *)
(***************************************************************************)
NInputs ==
    IF call.input_embeddings # None THEN Len(Val(call.input_embeddings))
    ELSE IF call.input_texts # None THEN Len(Val(call.input_texts))
    ELSE 0

C9_NoLabelsRaises ==
    (call.op = "predict" /\ NInputs >= 1 /\ Self.labels = <<>>) =>
        call.outcome # "returned"

\* trained with no labels but one description: the scores exist, scored is empty
C9_Witness ==
    /\ call.op = "predict" /\ NInputs >= 1
    /\ Self.labels = <<>>
    /\ Self.label_embeddings # None
    /\ Len(Val(Self.label_embeddings)) >= 1
    /\ call.outcome = "IndexError"

(***************************************************************************)
(* The last read_dataset call, as the claims read it                       *)
(***************************************************************************)
ReadReturned == call.op = "read_dataset" /\ call.outcome = "returned"

\* s is `line` without its leading and trailing whitespace
IsStripped(line, s) ==
    \E a \in 1..(Len(line) + 1), b \in 0..Len(line) :
        /\ s = SubSeq(line, a, b)
        /\ \A k \in 1..(a - 1) : line[k] \in Whitespace
        /\ \A k \in (b + 1)..Len(line) : line[k] \in Whitespace
        /\ a <= b => (line[a] \notin Whitespace /\ line[b] \notin Whitespace)

Pieces(line) == {SubSeq(line, a, b) : a \in 1..(Len(line) + 1), b \in 0..Len(line)}

StrippedLine(line) == CHOOSE s \in Pieces(line) : IsStripped(line, s)

NoTab(s) == \A k \in 1..Len(s) : s[k] # TAB

\* the number of tab-separated fields of s
FieldCount(s) == Cardinality({k \in 1..Len(s) : s[k] = TAB}) + 1

\* the data line behind item i: line i + 1 of the file, as read (with terminator)
DataLine(i) == file[i + 1] \o <<NL>>

DataLineCount == IF Len(file) = 0 THEN 0 ELSE Len(file) - 1

(***************************************************************************)
(* C7: read_dataset skips the first line and returns one item per          *)
(* remaining line, in file order; id, text and label of an item are the    *)
(* three tab-separated fields of its line once the line's surrounding      *)
(* whitespace is stripped.                                                 *)
(***************************************************************************)
C7_OneItemPerDataLine ==
    ReadReturned =>
        /\ nb.dataset = Some(call.result)
        /\ Len(call.result) = DataLineCount
        /\ \A i \in 1..Len(call.result) :
              LET item == call.result[i]
              IN  /\ NoTab(item.id) /\ NoTab(item.text) /\ NoTab(item.label)
                  /\ IsStripped(DataLine(i),
                                item.id \o <<TAB>> \o item.text \o <<TAB>> \o item.label)

\* two data lines giving different items, the first with a leading blank
C7_Witness ==
    /\ ReadReturned
    /\ Len(call.result) = 2
    /\ call.result[1] # call.result[2]
    /\ file[2][1] = SP
    /\ file[1] # <<>>

(***************************************************************************)
(* C8: read_dataset handles no failure: a data line that does not split    *)
(* into exactly three tab-separated fields after stripping (a blank line,  *)
(* a line whose last field is empty, ...) raises, and no dataset, not even *)
(* the items parsed before it, is returned.                                *)
(***************************************************************************)
BadLines == {i \in 1..DataLineCount : FieldCount(StrippedLine(DataLine(i))) # 3}

C8_BadLineRaises ==
    (call.op = "read_dataset" /\ BadLines # {}) =>
        /\ call.outcome = "ValueError"
        /\ "result" \notin DOMAIN call
        /\ nb.dataset = None

\* a good first data line followed by one with four fields
C8_Witness ==
    /\ call.op = "read_dataset"
    /\ call.outcome = "ValueError"
    /\ BadLines = {2}
    /\ FieldCount(StrippedLine(DataLine(2))) = 4

(***************************************************************************)
(* C10: after the zero-shot cell ran, texts_zs and y_true_zs hold exactly  *)
(* the dataset items whose label is in zero_shot_labels, in dataset order  *)
(* and paired item by item: none outside the list, none inside it dropped. *)
(***************************************************************************)
\* the positions of the dataset items whose label is a zero-shot label
ZeroShotPositions ==
    {i \in 1..Len(Val(nb.dataset)) : InList(Val(nb.dataset)[i].label, zero_shot_labels)}

\* the k-th smallest member of a set of positions
Nth(P, k) == CHOOSE i \in P : Cardinality({j \in P : j < i}) = k - 1

C10_ZeroShotSubset ==
    (call.op = "zero_shot" /\ nb.texts # None /\ nb.y_true # None) =>
        /\ nb.texts_zs # None /\ nb.y_true_zs # None
        /\ Len(Val(nb.texts_zs)) = Cardinality(ZeroShotPositions)
        /\ Len(Val(nb.y_true_zs)) = Cardinality(ZeroShotPositions)
        /\ \A k \in 1..Cardinality(ZeroShotPositions) :
              LET item == Val(nb.dataset)[Nth(ZeroShotPositions, k)]
              IN  /\ Val(nb.texts_zs)[k] = item.text
                  /\ Val(nb.y_true_zs)[k] = item.label

(***************************************************************************)
(* C11: after any sequence of train and predict calls, every label predict *)
(* returns is a member of the label list given to the most recent train    *)
(* call or the classifier's null_label: a label that only earlier train    *)
(* calls were given is never returned.                                     *)
(***************************************************************************)
\* the labels of the most recent train call: none before the first
LastTrainLabels ==
    IF trainLog.last = None THEN {} ELSE Range(Val(trainLog.last))

\* the labels earlier train calls were given that the most recent was not
RetiredLabels == trainLog.retired

C11_LabelsOfLastTrain ==
    PredictReturned =>
        \A i \in 1..Len(call.result.predicted_labels) :
            call.result.predicted_labels[i] \in LastTrainLabels \cup {Self.null_label}

\* retrained with a list that drops a label, which is not the null label either;
\* without a threshold the label returned is one of the new list
C11_Witness ==
    /\ PredictReturned
    /\ Self.threshold = None
    /\ RetiredLabels \ {Self.null_label} # {}
    /\ Len(call.result.predicted_labels) >= 1
    /\ call.result.predicted_labels[1] \in LastTrainLabels

(***************************************************************************)
(* C12 as stated: when several trained labels share the highest score for  *)
(* an input, predict returns the one that appears earliest in the label    *)
(* list given to train.                                                    *)
(***************************************************************************)
\* the highest score of row S over the scored positions J
TopScore(S, J) == CHOOSE s \in {S[j] : j \in J} : \A k \in J : S[k] <= s

\* the scored positions that hold the highest score of row S
Tied(S, J) == {j \in J : S[j] = TopScore(S, J)}

\* the earliest of a set of positions
Earliest(T) == CHOOSE j \in T : \A k \in T : j <= k

\* the positions T hold several labels, not one label listed twice
Several(T) == Cardinality({Self.labels[j] : j \in T}) >= 2

C12_EarliestOfTied ==
    PredictReturned =>
        LET S == Scores
            J == ScoredLabels
        IN  \A i \in 1..Len(S) :
                LET T == Tied(S[i], J)
                IN  Several(T) =>
                        call.result.predicted_labels[i] = Self.labels[Earliest(T)]

(***************************************************************************)
(* C12 as amended: when several trained labels share the highest score for *)
(* an input, the first entry of the input's ranked list is the one that    *)
(* appears earliest in the label list, with that score, and predict        *)
(* returns that label unless a threshold is set and the score is below it: *)
(* then it returns null_label.  The prediction is that function of the     *)
(* scores, the label order, the threshold and null_label.                  *)
(***************************************************************************)
C12_EarliestOfTiedUnlessBelow ==
    PredictReturned =>
        LET S == Scores
            J == ScoredLabels
        IN  \A i \in 1..Len(S) :
                LET T == Tied(S[i], J)
                    e == Earliest(T)
                IN  Several(T) =>
                        /\ call.result.predicted_labels[i] =
                              IF Self.threshold # None /\ S[i][e] < Val(Self.threshold)
                              THEN Self.null_label
                              ELSE Self.labels[e]
                        /\ call.output_scores =>
                              Val(call.result.predicted_scores)[i][1] =
                                  <<Self.labels[e], S[i][e]>>

\* two different labels tie at the top, no threshold is in the way, and the
\* first of the label list is returned
C12_Witness ==
    /\ PredictReturned
    /\ Len(InputRows) >= 1
    /\ Tied(Scores[1], ScoredLabels) = {1, 2}
    /\ Self.labels[1] # Self.labels[2]
    /\ ~BelowThreshold(Self.threshold, Scores[1][1])
    /\ call.result.predicted_labels[1] = Self.labels[1]

(***************************************************************************)
(* C13: thresholding changes the emitted label only, never the ranking:    *)
(* for an input whose prediction was replaced by null_label, the ranked    *)
(* list returned with output_scores=True is the one a classifier with      *)
(* threshold None returns, its first entry is the highest-scoring trained  *)
(* label with its score, and null_label is not inserted: the list has one  *)
(* entry per scored label, each a label of the list with its own score.    *)
(***************************************************************************)
\* the ranked lists the same classifier without threshold returns for the
\* arguments of the last call
RankedWithoutThreshold ==
    {Val(o.result.predicted_scores) :
        o \in {x \in PredictOutcomes([Self EXCEPT !.threshold = None],
                                     call.input_texts, call.input_embeddings, TRUE) :
                   x.outcome = "returned"}}

\* the inputs of the last call whose prediction the threshold replaced
Replaced(S, J) ==
    {i \in 1..Len(S) : \A k \in J : S[i][k] < Val(Self.threshold)}

C13_RankingUntouched ==
    (PredictReturned /\ call.output_scores /\ Self.threshold # None) =>
        LET S == Scores
            J == ScoredLabels
            ranked == Val(call.result.predicted_scores)
            plain  == RankedWithoutThreshold
        IN  \A i \in Replaced(S, J) :
                /\ call.result.predicted_labels[i] = Self.null_label
                /\ \A r \in plain : r[i] = ranked[i]
                /\ plain # {}
                /\ \E j \in J : /\ IsTop(S[i], J, ranked[i][1][1], j)
                                 /\ ranked[i][1][2] = S[i][j]
                /\ Len(ranked[i]) = Cardinality(J)
                /\ \A a \in 1..Len(ranked[i]) :
                      \E j \in J : ranked[i][a] = <<Self.labels[j], S[i][j]>>

\* an input under the threshold: null_label is returned, and the ranked list
\* keeps its two entries with a label other than null_label first
C13_Witness ==
    /\ PredictReturned /\ call.output_scores /\ Self.threshold # None
    /\ 1 \in Replaced(Scores, ScoredLabels)
    /\ call.result.predicted_labels[1] = Self.null_label
    /\ Len(Val(call.result.predicted_scores)[1]) = 2
    /\ Val(call.result.predicted_scores)[1][1][1] # Self.null_label

(***************************************************************************)
(* C14: a predict call that is given input_embeddings makes no encoder     *)
(* call and ignores input_texts: its outcome is the one of the same call   *)
(* with any other input_texts and with any other self.model, and it is the *)
(* outcome of passing, instead of the embeddings, texts that self.model    *)
(* encodes to those embeddings.                                            *)
(***************************************************************************)
\* how a predict call ended and what it returned, without its encoder calls
Ended(o) ==
    [outcome |-> o.outcome,
     result  |-> IF o.outcome = "returned" THEN Some(o.result) ELSE None]

\* the ways predict can end on classifier `self` with these arguments
Endings(self, input_texts, input_embeddings) ==
    {Ended(o) : o \in PredictOutcomes(self, input_texts, input_embeddings,
                                       call.output_scores)}

\* the text lists that self.model encodes to the embeddings of the last call
TextsEncodedAs ==
    IF Self.model = None THEN {}
    ELSE {T \in [1..Len(Val(call.input_embeddings)) -> Texts] :
              Encode(Val(Self.model), T) = Val(call.input_embeddings)}

\* other values for the input_texts argument of the last call
OtherTexts == ({None} \cup {Some(<<>>)} \cup {Some(<<t>>) : t \in Texts})
                  \ {call.input_texts}

C14_EmbeddingsBypassEncoder ==
    (call.op = "predict" /\ call.input_embeddings # None) =>
        LET given == Endings(Self, call.input_texts, call.input_embeddings)
        IN  /\ call.encodes = <<>>
            /\ Ended(call) \in given
            /\ \A t \in OtherTexts :
                  Endings(Self, t, call.input_embeddings) = given
            /\ \A m \in OptModels \ {Self.model} :
                  Endings([Self EXCEPT !.model = m], call.input_texts,
                          call.input_embeddings) = given
            /\ \A T \in TextsEncodedAs : Endings(Self, Some(T), None) = given

\* embeddings passed beside a text that encodes to something else and alone
\* gets another label: the label returned is the one of the text that
\* encodes to the embeddings
C14_Witness ==
    /\ PredictReturned
    /\ call.input_embeddings # None /\ call.input_texts # None
    /\ Len(Val(call.input_embeddings)) = 1
    /\ Self.model # None
    /\ TextsEncodedAs # {}
    /\ \E o \in PredictOutcomes(Self, call.input_texts, None, FALSE) :
          /\ o.outcome = "returned"
          /\ Len(o.result.predicted_labels) = 1
          /\ o.result.predicted_labels # call.result.predicted_labels

====
